---- MODULE Spec2Model ----
(***************************************************************************)
(* Model of kernel/locking/rwsem.h: the owner field helpers of the         *)
(* rw_semaphore and the wait-list admission rwsem_list_add_per_prio, in    *)
(* both builds (CONFIG_RWSEM_PRIO_AWARE set and unset).                    *)
(***************************************************************************)
EXTENDS Integers, Sequences, FiniteSets, TLC

(* ---------------------------------------------------------------------- *)
(* Bounds of the model                                                     *)
(* ---------------------------------------------------------------------- *)

\* longest wait list the model builds
MaxLen == 3

(* ---------------------------------------------------------------------- *)
(* Program constants                                                       *)
(* ---------------------------------------------------------------------- *)

\* rwsem.h:78
RWSEM_MAX_PREEMPT_ALLOWED == 3000

\* include/linux/sched/prio.h (MAX_RT_PRIO + NICE_WIDTH / 2); lower value =
\* more urgent
DEFAULT_PRIO == 120

\* task->prio values the model draws waiters from: two elevated levels, the
\* baseline itself, and one level less urgent than the baseline
Prios == {110, 119, 120, 130}

\* the two builds of rwsem_list_add_per_prio
Policies == {"prio", "fifo"}

VARIABLES
    policy,     \* build: "prio" (CONFIG_RWSEM_PRIO_AWARE) or "fifo"
    wait_list,  \* sem->wait_list, head first; each entry a waiter record
    m_count,    \* sem->m_count, the preempt budget
    last,       \* the last wait-list operation and what it returned
    watch,      \* history: index in wait_list of one observed waiter, 0 = none
    hist,       \* history of the inserts since the last insert into an empty list
    owner,      \* sem->owner, a pointer value
    opc,        \* per thread: where it stands inside rwsem_set_reader_owned
    query,      \* per thread: the owner value it last read and the two tests of it
    olast,      \* history: the last store to sem->owner
    ro,         \* history: rwsem_set_reader_owned calls since another store
    warned      \* has DEBUG_RWSEMS_WARN_ON reported a violation

vars == <<policy, wait_list, m_count, last, watch, hist,
          owner, opc, query, olast, ro, warned>>

qvars == <<policy, wait_list, m_count, last, watch, hist>>
ovars == <<owner, opc, query, olast, ro, warned>>

(* A queued waiter: prio is waiter->task->prio.  arr and atcap are history *)
(* fields: arr is the waiter's rank in arrival order among the waiters     *)
(* now queued (1 = earliest), atcap records whether sem->m_count had       *)
(* already reached the cap when the waiter was inserted.                   *)
Waiter(p, l, c) == [prio |-> p, arr |-> Len(l) + 1, atcap |-> c]

(* ---------------------------------------------------------------------- *)
(* list.h primitives on a sequence (index 0 stands for the list head)      *)
(* ---------------------------------------------------------------------- *)

list_empty(l) == Len(l) = 0

\* variant: the entry after the new one is dropped from the chain
list_add_lose(new, l, at) == SubSeq(l, 1, at) \o <<new>> \o SubSeq(l, at + 2, Len(l))

\* list_add(new, at): link new right after the entry at index at
list_add(new, l, at) == SubSeq(l, 1, at) \o <<new>> \o SubSeq(l, at + 1, Len(l))

\* list_add_tail(new, head): link new right before the head, i.e. last
list_add_tail(new, l) == list_add(new, l, Len(l))

\* variant: the comparison of line 112 inverted (< for >)
RECURSIVE list_for_each_lt(_, _, _)
list_for_each_lt(l, pos, p) ==
    IF pos > Len(l) THEN 0
    ELSE IF l[pos].prio < p THEN pos
    ELSE list_for_each_lt(l, pos + 1, p)

\* variant: the scan stops at an entry of equal priority too (>= for >)
RECURSIVE list_for_each_ge(_, _, _)
list_for_each_ge(l, pos, p) ==
    IF pos > Len(l) THEN 0
    ELSE IF l[pos].prio >= p THEN pos
    ELSE list_for_each_ge(l, pos + 1, p)

\* list_for_each + the test of line 112: index of the first entry from pos
\* on whose prio is greater than p, or 0 when the loop ends at the head
RECURSIVE list_for_each(_, _, _)
list_for_each(l, pos, p) ==
    IF pos > Len(l) THEN 0
    ELSE IF l[pos].prio > p THEN pos
    ELSE list_for_each(l, pos + 1, p)

(* ---------------------------------------------------------------------- *)
(* rwsem_list_add_per_prio, CONFIG_RWSEM_PRIO_AWARE build (lines 83-123)   *)
(* ---------------------------------------------------------------------- *)

\* variant: the budget test off by one (<= for <)
may_preempt_le(p, cnt) == p < DEFAULT_PRIO /\ cnt <= RWSEM_MAX_PREEMPT_ALLOWED

\* variant: the baseline priority counts as elevated (<= for <)
may_preempt_baseline(p, cnt) == p <= DEFAULT_PRIO /\ cnt < RWSEM_MAX_PREEMPT_ALLOWED

\* variant: the budget is not consulted
may_preempt_nocap(p, cnt) == p < DEFAULT_PRIO

\* lines 107-108: may this waiter try to preempt queued waiters
may_preempt(p, cnt) == p < DEFAULT_PRIO /\ cnt < RWSEM_MAX_PREEMPT_ALLOWED

\* variant: the new waiter is linked after pos instead of before it
splice_after(new, l, pos) == list_add(new, l, pos)

\* line 113: list_add(&waiter_in->list, pos->prev)
splice(new, l, pos) == list_add(new, l, pos - 1)

\* variant: every elevated insert consumes budget, spliced or not
rwsem_list_add_per_prio_count_all(p, l, cnt) ==
    LET waiter_in == Waiter(p, l, ~list_empty(l) /\ cnt >= RWSEM_MAX_PREEMPT_ALLOWED)
        pos == IF may_preempt(p, cnt) THEN list_for_each(l, 1, p) ELSE 0
    IN  IF list_empty(l)
        THEN [wait_list |-> list_add_tail(waiter_in, l), m_count |-> 0, ret |-> TRUE]
        ELSE IF pos # 0
        THEN LET nl == splice(waiter_in, l, pos)
             IN  [wait_list |-> nl, m_count |-> cnt + 1, ret |-> (nl[1] = waiter_in)]
        ELSE [wait_list |-> list_add_tail(waiter_in, l),
              m_count |-> IF may_preempt(p, cnt) THEN cnt + 1 ELSE cnt,
              ret |-> FALSE]

\* variant: a splice always reports the front (return true for the test
\* of line 115)
rwsem_list_add_per_prio_ret_true(p, l, cnt) ==
    LET waiter_in == Waiter(p, l, ~list_empty(l) /\ cnt >= RWSEM_MAX_PREEMPT_ALLOWED)
        pos == IF may_preempt(p, cnt) THEN list_for_each(l, 1, p) ELSE 0
    IN  IF list_empty(l)
        THEN [wait_list |-> list_add_tail(waiter_in, l), m_count |-> 0, ret |-> TRUE]
        ELSE IF pos # 0
        THEN [wait_list |-> splice(waiter_in, l, pos), m_count |-> cnt + 1, ret |-> TRUE]
        ELSE [wait_list |-> list_add_tail(waiter_in, l), m_count |-> cnt, ret |-> FALSE]

\* variant: a splice does not consume budget (m_count++ left out)
rwsem_list_add_per_prio_no_count(p, l, cnt) ==
    LET waiter_in == Waiter(p, l, ~list_empty(l) /\ cnt >= RWSEM_MAX_PREEMPT_ALLOWED)
        pos == IF may_preempt(p, cnt) THEN list_for_each(l, 1, p) ELSE 0
    IN  IF list_empty(l)
        THEN [wait_list |-> list_add_tail(waiter_in, l), m_count |-> 0, ret |-> TRUE]
        ELSE IF pos # 0
        THEN LET nl == splice(waiter_in, l, pos)
             IN  [wait_list |-> nl, m_count |-> cnt, ret |-> (nl[1] = waiter_in)]
        ELSE [wait_list |-> list_add_tail(waiter_in, l), m_count |-> cnt, ret |-> FALSE]

\* p is waiter_in->task->prio, l is sem->wait_list, cnt is sem->m_count;
\* the result is the new list, the new budget and the returned bool
rwsem_list_add_per_prio(p, l, cnt) ==
    LET waiter_in == Waiter(p, l, ~list_empty(l) /\ cnt >= RWSEM_MAX_PREEMPT_ALLOWED)
        pos == IF may_preempt(p, cnt) THEN list_for_each(l, 1, p) ELSE 0
    IN  IF list_empty(l)
        THEN \* lines 101-105
             [wait_list |-> list_add_tail(waiter_in, l), m_count |-> 0, ret |-> TRUE]
        ELSE IF pos # 0
        THEN \* lines 112-116
             LET nl == splice(waiter_in, l, pos)
             IN  [wait_list |-> nl, m_count |-> cnt + 1, ret |-> (nl[1] = waiter_in)]
        ELSE \* lines 120-122
             [wait_list |-> list_add_tail(waiter_in, l), m_count |-> cnt, ret |-> FALSE]

(* ---------------------------------------------------------------------- *)
(* rwsem_list_add_per_prio, build without CONFIG_RWSEM_PRIO_AWARE          *)
(* (lines 125-130)                                                         *)
(* ---------------------------------------------------------------------- *)

\* variant: list_add for list_add_tail, the new waiter goes to the front
rwsem_list_add_per_prio_fifo_front(p, l, cnt) ==
    [wait_list |-> list_add(Waiter(p, l, FALSE), l, 0), m_count |-> cnt, ret |-> FALSE]

rwsem_list_add_per_prio_fifo(p, l, cnt) ==
    [wait_list |-> list_add_tail(Waiter(p, l, FALSE), l), m_count |-> cnt, ret |-> FALSE]

(* ---------------------------------------------------------------------- *)
(* Removal of a waiter (wake-up, timeout, signal): list_del under          *)
(* sem->wait_lock in the callers; the budget is not touched                *)
(* ---------------------------------------------------------------------- *)

list_del(l, i) ==
    LET gone == l[i].arr
        rest == SubSeq(l, 1, i - 1) \o SubSeq(l, i + 1, Len(l))
    IN  [k \in 1..Len(rest) |->
            [rest[k] EXCEPT !.arr = IF @ > gone THEN @ - 1 ELSE @]]

\* index of the most recently arrived waiter of a non-empty list
Newest(l) == CHOOSE k \in 1..Len(l) : l[k].arr = Len(l)

(* ---------------------------------------------------------------------- *)
(* The owner field (CONFIG_RWSEM_SPIN_ON_OWNER build, lines 16-61)         *)
(* ---------------------------------------------------------------------- *)

\* threads that use the owner field concurrently
NThreads == 2

\* the history ro counts calls and stores up to this many
MaxCalls == 3

Threads == 1..NThreads

\* include/linux/rwsem.h: bit 0 of the owner word marks anonymous ownership
RWSEM_ANONYMOUSLY_OWNED == 1

\* include/linux/rwsem.h: ((struct task_struct *)RWSEM_ANONYMOUSLY_OWNED)
RWSEM_READER_OWNED == RWSEM_ANONYMOUSLY_OWNED

NULL == 0

\* the address of thread t's task_struct: word aligned, so bit 0 is clear
current(t) == 8 * t

OwnerValues == {NULL, RWSEM_READER_OWNED} \cup {current(t) : t \in Threads}

\* (unsigned long)owner & RWSEM_ANONYMOUSLY_OWNED, the mask being one bit
owner_and_mask(o) == ((o \div RWSEM_ANONYMOUSLY_OWNED) % 2) * RWSEM_ANONYMOUSLY_OWNED

\* variant: the negation is lost
is_rwsem_owner_spinnable_noneg(o) == owner_and_mask(o) # 0

\* lines 50-53
is_rwsem_owner_spinnable(o) == ~(owner_and_mask(o) # 0)

\* lines 58-61
rwsem_has_anonymous_owner(o) == owner_and_mask(o) # 0

(* ---------------------------------------------------------------------- *)
(* Actions on the wait list                                                *)
(* ---------------------------------------------------------------------- *)

NoQuery == [t \in Threads |-> [done |-> FALSE, seen |-> NULL, fresh |-> FALSE,
                                spinnable |-> FALSE, anonymous |-> FALSE]]

NoCalls == [calls |-> 0, stores |-> 0]

\* n + 1, as far as the history counts
Bump(n) == IF n < MaxCalls THEN n + 1 ELSE n

Init ==
    /\ policy \in Policies
    /\ wait_list = <<>>
    /\ m_count = 0
    /\ last = [op |-> "none", ret |-> FALSE]
    /\ watch = 0
    /\ hist = [nontail |-> 0, capins |-> FALSE]
    /\ owner = NULL
    /\ opc = [t \in Threads |-> "idle"]
    /\ query = NoQuery
    /\ olast = [op |-> "init", by |-> 0, was |-> NULL, value |-> NULL]
    /\ ro = NoCalls
    /\ warned = FALSE

\* history of an insert of priority p that gave the list nl: the inserts
\* not placed at the tail (counted up to one past the cap), and whether an
\* elevated waiter came with the budget at the cap, both since the last
\* insert into an empty list
InsertHistory(p, nl) ==
    IF list_empty(wait_list)
    THEN [nontail |-> 0, capins |-> FALSE]
    ELSE [nontail |-> IF nl[Len(nl)].arr = Len(wait_list) + 1
                         \/ hist.nontail > RWSEM_MAX_PREEMPT_ALLOWED
                      THEN hist.nontail ELSE hist.nontail + 1,
          capins  |-> hist.capins \/ (p < DEFAULT_PRIO
                                       /\ m_count >= RWSEM_MAX_PREEMPT_ALLOWED)]

\* the caller's insert of a waiter of priority p, under sem->wait_lock
Inserted(p, r) ==
    /\ wait_list' = r.wait_list
    /\ m_count' = r.m_count
    /\ last' = [op |-> "insert", ret |-> r.ret]
    /\ watch' = IF watch > 0 /\ Newest(r.wait_list) <= watch THEN watch + 1 ELSE watch
    /\ hist' = InsertHistory(p, r.wait_list)
    /\ UNCHANGED <<policy, ovars>>

InsertPrio(p) ==
    /\ policy = "prio"
    /\ Len(wait_list) < MaxLen
    /\ Inserted(p, rwsem_list_add_per_prio(p, wait_list, m_count))

InsertFifo(p) ==
    /\ policy = "fifo"
    /\ Len(wait_list) < MaxLen
    /\ Inserted(p, rwsem_list_add_per_prio_fifo(p, wait_list, m_count))

Remove(i) ==
    /\ i \in 1..Len(wait_list)
    /\ wait_list' = list_del(wait_list, i)
    /\ last' = [op |-> "remove", ret |-> FALSE]
    /\ watch' = IF i = watch THEN 0 ELSE IF i < watch THEN watch - 1 ELSE watch
    /\ UNCHANGED <<policy, m_count, hist, ovars>>

\* the first waiter is woken and leaves the list
RemoveHead == Remove(1)

\* start observing the waiter at index i
Watch(i) ==
    /\ watch = 0
    /\ i \in 1..Len(wait_list)
    /\ watch' = i
    /\ UNCHANGED <<policy, wait_list, m_count, last, hist, ovars>>

Next ==
    \/ \E p \in Prios : InsertPrio(p)
    \/ \E p \in Prios : InsertFifo(p)
    \/ \E i \in 1..MaxLen : Remove(i)

Spec == Init /\ [][Next]_vars

(* ---------------------------------------------------------------------- *)
(* Actions on the owner field                                              *)
(* ---------------------------------------------------------------------- *)

\* lines 10-14: DEBUG_RWSEMS_WARN_ON(c) reports when c holds, in a build
\* with CONFIG_DEBUG_RWSEMS; no function of rwsem.h evaluates it
DEBUG_RWSEMS_WARN_ON(c) == warned' = (warned \/ c)

\* a store of new over old that is made in two halves and seen between them
Torn(old, new) == ((new \div 4) * 4) + (old % 4)

\* variant: a plain store, which may tear (the hazard of lines 17-23)
rwsem_set_owner_torn(t) ==
    /\ opc[t] = "idle"
    /\ owner' \in {current(t), Torn(owner, current(t))}
    /\ olast' = [op |-> "set_owner", by |-> t, was |-> owner, value |-> current(t)]
    /\ ro' = NoCalls
    /\ UNCHANGED <<qvars, opc, query, warned>>

\* lines 24-27: WRITE_ONCE(sem->owner, current)
rwsem_set_owner(t) ==
    /\ opc[t] = "idle"
    /\ owner' = current(t)
    /\ olast' = [op |-> "set_owner", by |-> t, was |-> owner, value |-> current(t)]
    /\ ro' = NoCalls
    /\ UNCHANGED <<qvars, opc, query, warned>>

\* lines 29-32: WRITE_ONCE(sem->owner, NULL)
rwsem_clear_owner(t) ==
    /\ opc[t] = "idle"
    /\ owner' = NULL
    /\ olast' = [op |-> "clear_owner", by |-> t, was |-> owner, value |-> NULL]
    /\ ro' = NoCalls
    /\ UNCHANGED <<qvars, opc, query, warned>>

\* variant: the test of line 41 is left out, the store is always made
rwsem_set_reader_owned_load_always(t) ==
    /\ opc[t] = "idle"
    /\ opc' = [opc EXCEPT ![t] = "store"]
    /\ UNCHANGED <<qvars, owner, query, olast, ro, warned>>

\* variant: the test of line 41 inverted (== for !=)
rwsem_set_reader_owned_load_inv(t) ==
    /\ opc[t] = "idle"
    /\ IF owner = RWSEM_READER_OWNED
       THEN /\ opc' = [opc EXCEPT ![t] = "store"]
            /\ ro' = ro
       ELSE /\ opc' = opc
            /\ ro' = [ro EXCEPT !.calls = Bump(@)]
    /\ UNCHANGED <<qvars, owner, query, olast, warned>>

\* line 41: the READ_ONCE and the comparison; the call ends here when the
\* field already holds RWSEM_READER_OWNED
rwsem_set_reader_owned_load(t) ==
    /\ opc[t] = "idle"
    /\ IF owner # RWSEM_READER_OWNED
       THEN /\ opc' = [opc EXCEPT ![t] = "store"]
            /\ ro' = ro
       ELSE /\ opc' = opc
            /\ ro' = [ro EXCEPT !.calls = Bump(@)]
    /\ UNCHANGED <<qvars, owner, query, olast, warned>>

\* line 42: the WRITE_ONCE
rwsem_set_reader_owned_store(t) ==
    /\ opc[t] = "store"
    /\ owner' = RWSEM_READER_OWNED
    /\ opc' = [opc EXCEPT ![t] = "idle"]
    /\ olast' = [op |-> "set_reader_owned", by |-> t, was |-> owner,
                 value |-> RWSEM_READER_OWNED]
    /\ ro' = [calls |-> Bump(ro.calls), stores |-> Bump(ro.stores)]
    /\ UNCHANGED <<qvars, query, warned>>

\* a spinner reads sem->owner once and applies both tests to the value;
\* fresh: the value read is the value of the last store
Query(t) ==
    /\ opc[t] = "idle"
    /\ query' = [query EXCEPT ![t] =
                    [done |-> TRUE, seen |-> owner, fresh |-> (owner = olast.value),
                     spinnable |-> is_rwsem_owner_spinnable(owner),
                     anonymous |-> rwsem_has_anonymous_owner(owner)]]
    /\ UNCHANGED <<qvars, owner, opc, olast, ro, warned>>

OwnerNext ==
    \/ \E t \in Threads : rwsem_set_owner(t)
    \/ \E t \in Threads : rwsem_clear_owner(t)
    \/ \E t \in Threads : rwsem_set_reader_owned_load(t)
    \/ \E t \in Threads : rwsem_set_reader_owned_store(t)
    \/ \E t \in Threads : Query(t)

OwnerSpec == Init /\ [][OwnerNext]_vars

\* no thread is inside rwsem_set_reader_owned
AllIdle == \A u \in Threads : opc[u] = "idle"

\* the owner operations one call at a time: a call begins only when no
\* other call is under way
SeqOwnerNext ==
    \/ \E t \in Threads : AllIdle /\ rwsem_set_owner(t)
    \/ \E t \in Threads : AllIdle /\ rwsem_clear_owner(t)
    \/ \E t \in Threads : AllIdle /\ rwsem_set_reader_owned_load(t)
    \/ \E t \in Threads : rwsem_set_reader_owned_store(t)
    \/ \E t \in Threads : AllIdle /\ Query(t)

SeqOwnerSpec == Init /\ [][SeqOwnerNext]_vars

\* readers only: the field holds any value at the start, and threads run
\* rwsem_set_reader_owned and read the field, interleaved at will
ReaderInit ==
    /\ policy \in Policies
    /\ wait_list = <<>>
    /\ m_count = 0
    /\ last = [op |-> "none", ret |-> FALSE]
    /\ watch = 0
    /\ hist = [nontail |-> 0, capins |-> FALSE]
    /\ owner \in OwnerValues
    /\ opc = [t \in Threads |-> "idle"]
    /\ query = NoQuery
    /\ olast = [op |-> "init", by |-> 0, was |-> owner, value |-> owner]
    /\ ro = NoCalls
    /\ warned = FALSE

ReaderNext ==
    \/ \E t \in Threads : rwsem_set_reader_owned_load(t)
    \/ \E t \in Threads : rwsem_set_reader_owned_store(t)
    \/ \E t \in Threads : Query(t)

ReaderSpec == ReaderInit /\ [][ReaderNext]_vars

(* ---------------------------------------------------------------------- *)
(* Shorthands for the properties                                           *)
(* ---------------------------------------------------------------------- *)

cap == RWSEM_MAX_PREEMPT_ALLOWED

Elevated(w) == w.prio < DEFAULT_PRIO

\* the state right after an insert; the inserted waiter is at Newest
JustInserted == last.op = "insert"

\* this step is an insert / a removal
InsertStep == Len(wait_list') = Len(wait_list) + 1
RemoveStep == Len(wait_list') = Len(wait_list) - 1

\* l with the entry at index k taken out, history fields left as they are
Without(l, k) == SubSeq(l, 1, k - 1) \o SubSeq(l, k + 1, Len(l))

(* ---------------------------------------------------------------------- *)
(* C1                                                                      *)
(* ---------------------------------------------------------------------- *)

\* C1: under either policy, insert returns true if and only if the inserted
\* waiter is the first entry of the wait list right after the call.
C1_ReturnIffHead ==
    JustInserted => (last.ret <=> Newest(wait_list) = 1)

(* ---------------------------------------------------------------------- *)
(* C2                                                                      *)
(* ---------------------------------------------------------------------- *)

\* C2: under the FIFO-only policy, insert appends the waiter at the tail and
\* returns true if and only if the list was empty before the call (the
\* list holds the new waiter alone after it).
C2_FifoAppendsAndReportsEmpty ==
    (policy = "fifo" /\ JustInserted) =>
        /\ Newest(wait_list) = Len(wait_list)
        /\ last.ret <=> (Len(wait_list) = 1)

(* ---------------------------------------------------------------------- *)
(* C3                                                                      *)
(* ---------------------------------------------------------------------- *)

\* C3: under the priority-aware policy the budget stays within 0..cap, and
\* it is 0 right after an insert into a list that was empty.
C3_BudgetInRange ==
    policy = "prio" =>
        /\ m_count \in 0..cap
        /\ (JustInserted /\ Len(wait_list) = 1) => m_count = 0

\* the budget has reached the cap with a full list
C3_Witness ==
    /\ policy = "prio"
    /\ m_count = cap
    /\ Len(wait_list) = MaxLen

(* ---------------------------------------------------------------------- *)
(* C4                                                                      *)
(* ---------------------------------------------------------------------- *)

\* C4: once the budget equals cap, an insert into a non-empty list is a
\* tail append that returns false and leaves the budget at cap, whatever
\* the priority; a removal leaves the budget at cap as well, so this lasts
\* until an insert finds the list empty.
C4_FifoAtCap ==
    [][(policy = "prio" /\ m_count = cap) =>
        /\ (InsertStep /\ wait_list # <<>>) =>
              /\ Newest(wait_list') = Len(wait_list')
              /\ Without(wait_list', Len(wait_list')) = wait_list
              /\ last'.ret = FALSE
              /\ m_count' = cap
        /\ RemoveStep => m_count' = cap
        /\ (InsertStep /\ wait_list = <<>>) => m_count' = 0
      ]_vars

\* an elevated waiter was inserted at cap and sits behind a less urgent one
C4_Witness ==
    /\ policy = "prio"
    /\ m_count = cap
    /\ \E i, j \in 1..Len(wait_list) :
          /\ i < j
          /\ Elevated(wait_list[j])
          /\ wait_list[j].atcap
          /\ wait_list[i].prio > wait_list[j].prio

(* ---------------------------------------------------------------------- *)
(* C5                                                                      *)
(* ---------------------------------------------------------------------- *)

\* C5 as stated: no waiter less urgent than a waiter W is ahead of W unless
\* the budget was at cap when W was inserted.
C5_Original ==
    policy = "prio" =>
        \A i, j \in 1..Len(wait_list) :
            (i < j /\ wait_list[i].prio > wait_list[j].prio) => wait_list[j].atcap

\* C5 amended: no waiter less urgent than a waiter W whose priority is
\* strictly more urgent than the baseline is ahead of W, unless the budget
\* was at cap when W was inserted.
C5_ElevatedNotBehind ==
    policy = "prio" =>
        \A i, j \in 1..Len(wait_list) :
            (i < j /\ Elevated(wait_list[j]) /\ wait_list[i].prio > wait_list[j].prio)
                => wait_list[j].atcap

\* an elevated waiter inserted below the cap has overtaken a less urgent
\* waiter that arrived before it
C5_Witness ==
    /\ policy = "prio"
    /\ \E i, j \in 1..Len(wait_list) :
          /\ i < j
          /\ Elevated(wait_list[i])
          /\ ~wait_list[i].atcap
          /\ wait_list[i].arr > wait_list[j].arr
          /\ wait_list[j].prio > wait_list[i].prio

(* ---------------------------------------------------------------------- *)
(* C6                                                                      *)
(* ---------------------------------------------------------------------- *)

\* Priorities of the arrivals of LiveSpec.  130 is left out: like 120 it is
\* not elevated, so it never scans, and every elevated priority compares
\* below both, so the two are moved and overtaken alike.
LivePrios == Prios \ {130}

\* Waiters arrive at will, one queued waiter is observed, and the first
\* waiter of a non-empty list is always eventually woken and removed.
LiveNext ==
    \/ \E p \in LivePrios : InsertPrio(p)
    \/ \E p \in LivePrios : InsertFifo(p)
    \/ RemoveHead
    \/ \E i \in 1..MaxLen : Watch(i)

LiveSpec == Init /\ [][LiveNext]_vars /\ WF_vars(RemoveHead)

\* C6: under the priority-aware policy, with the head of the list always
\* eventually removed, a queued waiter eventually becomes the head of the
\* list, whatever arrives after it.
C6_EventuallyHead ==
    (policy = "prio" /\ watch > 0) ~> (watch = 1)

\* the observed waiter has been overtaken: a later arrival is ahead of it
C6_Witness ==
    /\ policy = "prio"
    /\ watch > 1
    /\ \E i \in 1..(watch - 1) : wait_list[i].arr > wait_list[watch].arr

(* ---------------------------------------------------------------------- *)
(* C7                                                                      *)
(* ---------------------------------------------------------------------- *)

\* C7: of two queued waiters of equal priority, the one inserted earlier
\* is ahead of the one inserted later, under either policy.
C7_StableWithinPriority ==
    \A i, j \in 1..Len(wait_list) :
        (i < j /\ wait_list[i].prio = wait_list[j].prio)
            => wait_list[i].arr < wait_list[j].arr

\* two elevated waiters of one priority have both been spliced ahead of a
\* less urgent waiter that arrived before them
C7_Witness ==
    /\ policy = "prio"
    /\ \E i, j, k \in 1..Len(wait_list) :
          /\ i < j /\ j < k
          /\ wait_list[i].prio = wait_list[j].prio
          /\ wait_list[k].prio > wait_list[j].prio
          /\ wait_list[k].arr < wait_list[i].arr
          /\ wait_list[k].arr < wait_list[j].arr

(* ---------------------------------------------------------------------- *)
(* C8                                                                      *)
(* ---------------------------------------------------------------------- *)

\* C8: under the FIFO-only policy the order of the wait list is the order
\* of arrival, whatever the priorities.
C8_FifoIsArrivalOrder ==
    policy = "fifo" => \A i \in 1..Len(wait_list) : wait_list[i].arr = i

\* a full FIFO list in which a more urgent waiter sits behind a less
\* urgent one
C8_Witness ==
    /\ policy = "fifo"
    /\ Len(wait_list) = MaxLen
    /\ JustInserted
    /\ \E i, j \in 1..Len(wait_list) :
          i < j /\ wait_list[i].prio > wait_list[j].prio

(* ---------------------------------------------------------------------- *)
(* C9                                                                      *)
(* ---------------------------------------------------------------------- *)

\* C9: under the priority-aware policy the budget changes in two ways
\* only.  An insert that places the new waiter right before an existing
\* waiter adds exactly 1, and that waiter is strictly less urgent; an
\* insert into an empty list sets it to 0.  A tail append to a non-empty
\* list and a removal leave it as it is.
C9_BudgetSteps ==
    [][policy = "prio" =>
        /\ InsertStep =>
              LET k == Newest(wait_list')
              IN  /\ wait_list = <<>> => m_count' = 0
                  /\ (wait_list # <<>> /\ k < Len(wait_list')) =>
                        /\ m_count' = m_count + 1
                        /\ wait_list'[k + 1].prio > wait_list'[k].prio
                  /\ (wait_list # <<>> /\ k = Len(wait_list')) =>
                        m_count' = m_count
        /\ RemoveStep => m_count' = m_count
        /\ m_count' \in {m_count, m_count + 1, 0}
      ]_vars

\* a splice into the middle of the list has consumed budget
C9_Witness ==
    /\ policy = "prio"
    /\ JustInserted
    /\ m_count >= 2
    /\ Newest(wait_list) > 1
    /\ Newest(wait_list) < Len(wait_list)

(* ---------------------------------------------------------------------- *)
(* C10                                                                     *)
(* ---------------------------------------------------------------------- *)

\* C10: is_rwsem_owner_spinnable is true of a NULL owner and of every
\* thread's task pointer and false of RWSEM_READER_OWNED;
\* rwsem_has_anonymous_owner is its complement.
C10_SpinnableUnlessAnonymous ==
    \A t \in Threads :
        query[t].done =>
            /\ query[t].seen = NULL => query[t].spinnable
            /\ (\E x \in Threads : query[t].seen = current(x)) => query[t].spinnable
            /\ query[t].seen = RWSEM_READER_OWNED => ~query[t].spinnable
            /\ query[t].anonymous <=> ~query[t].spinnable

\* the tests have been applied to a task pointer and to the reader mark
C10_Witness ==
    \E t, u \in Threads :
        /\ query[t].done /\ query[u].done
        /\ query[t].seen = RWSEM_READER_OWNED
        /\ \E x \in Threads : query[u].seen = current(x)

(* ---------------------------------------------------------------------- *)
(* C11                                                                     *)
(* ---------------------------------------------------------------------- *)

\* C11: in a sequence of rwsem_set_reader_owned calls made one after the
\* other with no other store in between, at most one call stores, so no
\* call made while the field already holds RWSEM_READER_OWNED stores; and
\* the field holds RWSEM_READER_OWNED after every call.
C11_StoreElided ==
    /\ ro.stores <= 1
    /\ (AllIdle /\ ro.calls >= 1) => owner = RWSEM_READER_OWNED

\* after the call that stored, further calls found the field set
C11_Witness ==
    /\ AllIdle
    /\ ro.calls = MaxCalls
    /\ ro.stores = 1
    /\ owner = RWSEM_READER_OWNED

(* ---------------------------------------------------------------------- *)
(* C12                                                                     *)
(* ---------------------------------------------------------------------- *)

\* C12: with debug assertions enabled a contract violation is reported;
\* here: rwsem_clear_owner called while the owner field is already NULL
\* makes DEBUG_RWSEMS_WARN_ON report.
C12_ClearOfFreeOwnerReported ==
    (olast.op = "clear_owner" /\ olast.was = NULL) => warned

(* ---------------------------------------------------------------------- *)
(* C13                                                                     *)
(* ---------------------------------------------------------------------- *)

\* C13: rwsem_set_owner leaves the caller's task pointer in the field and
\* rwsem_clear_owner leaves NULL, whatever the field held; every value a
\* reader sees is a value some store wrote or the initial one, never a
\* mix, and it is the value of the last store made before the read.
C13_WholeStores ==
    /\ olast.op = "set_owner" => owner = current(olast.by)
    /\ olast.op = "clear_owner" => owner = NULL
    /\ \A t \in Threads :
          query[t].done => (query[t].seen \in OwnerValues /\ query[t].fresh)

\* a reader has seen the task pointer that a thread stored over the reader
\* mark
C13_Witness ==
    /\ olast.op = "set_owner"
    /\ olast.was = RWSEM_READER_OWNED
    /\ \E t \in Threads :
          /\ t # olast.by
          /\ query[t].done
          /\ query[t].seen = current(olast.by)

(* ---------------------------------------------------------------------- *)
(* C16                                                                     *)
(* ---------------------------------------------------------------------- *)

\* C16: with threads running rwsem_set_reader_owned concurrently and no
\* other store, the field holds its initial value until the first store
\* and RWSEM_READER_OWNED from then on, and it holds RWSEM_READER_OWNED
\* once any call has completed.
C16_ConcurrentReaderOwned ==
    /\ olast.op = "init" => owner = olast.value
    /\ olast.op # "init" => owner = RWSEM_READER_OWNED
    /\ ro.calls >= 1 => owner = RWSEM_READER_OWNED

\* two callers both saw the field unset and both stored
C16_Witness ==
    /\ ro.stores >= 2
    /\ AllIdle
    /\ owner = RWSEM_READER_OWNED

(* ---------------------------------------------------------------------- *)
(* C14                                                                     *)
(* ---------------------------------------------------------------------- *)

\* the queued waiters of l that are strictly less urgent than priority p
LessUrgent(l, p) == {i \in 1..Len(l) : l[i].prio > p}

\* the least member of a non-empty set of indices
First(S) == CHOOSE i \in S : \A j \in S : i <= j

\* C14: under the priority-aware policy, an elevated waiter inserted into
\* a non-empty list with budget below cap and some queued waiter strictly
\* less urgent than it is placed right before the first such waiter, the
\* budget grows by exactly 1, and the result is true iff that waiter was
\* the head.
C14_SpliceBeforeFirstLessUrgent ==
    [][(policy = "prio" /\ InsertStep /\ wait_list # <<>>) =>
        LET k == Newest(wait_list')
            p == wait_list'[k].prio
            S == LessUrgent(wait_list, p)
        IN  (p < DEFAULT_PRIO /\ m_count < cap /\ S # {}) =>
                /\ k = First(S)
                /\ Without(wait_list', k) = wait_list
                /\ m_count' = m_count + 1
                /\ last'.ret <=> (First(S) = 1)
      ]_vars

\* an elevated waiter was spliced behind a more urgent head and before a
\* less urgent waiter, and false was returned
C14_Witness ==
    /\ policy = "prio"
    /\ JustInserted
    /\ ~last.ret
    /\ LET k == Newest(wait_list)
       IN  /\ 1 < k /\ k < Len(wait_list)
           /\ Elevated(wait_list[k])
           /\ wait_list[k - 1].prio < wait_list[k].prio
           /\ wait_list[k + 1].prio > wait_list[k].prio

(* ---------------------------------------------------------------------- *)
(* C15                                                                     *)
(* ---------------------------------------------------------------------- *)

\* C15: under the priority-aware policy, an insert into a non-empty list
\* of a waiter that is not elevated, or of an elevated waiter with no
\* queued waiter strictly less urgent than it, appends the waiter at the
\* tail, leaves the budget unchanged and returns false.
C15_NoSpliceMeansTail ==
    [][(policy = "prio" /\ InsertStep /\ wait_list # <<>>) =>
        LET k == Newest(wait_list')
            p == wait_list'[k].prio
        IN  (p >= DEFAULT_PRIO \/ LessUrgent(wait_list, p) = {}) =>
                /\ k = Len(wait_list')
                /\ Without(wait_list', k) = wait_list
                /\ m_count' = m_count
                /\ last'.ret = FALSE
      ]_vars

\* with budget left, a waiter of the baseline priority was appended behind
\* a queued waiter less urgent than it
C15_Witness ==
    /\ policy = "prio"
    /\ JustInserted
    /\ m_count < cap
    /\ LET k == Newest(wait_list)
       IN  /\ k = Len(wait_list)
           /\ wait_list[k].prio = DEFAULT_PRIO
           /\ \E i \in 1..(k - 1) : wait_list[i].prio > wait_list[k].prio

(* ---------------------------------------------------------------------- *)
(* C17                                                                     *)
(* ---------------------------------------------------------------------- *)

\* C17: under the priority-aware policy, between two inserts into an
\* empty list (the budget resets) at most cap inserts are placed anywhere
\* other than the tail.  A waiter is overtaken only by such inserts, and
\* none of the resets happens while it is queued, so at most cap later
\* arrivals are placed ahead of it.
C17_AtMostCapOvertakes ==
    policy = "prio" => hist.nontail <= cap

\* cap inserts have been placed ahead of queued waiters, and an elevated
\* waiter that came after them waits at the tail behind a less urgent one
C17_Witness ==
    /\ policy = "prio"
    /\ hist.nontail = cap
    /\ JustInserted
    /\ LET k == Newest(wait_list)
       IN  /\ k = Len(wait_list)
           /\ Elevated(wait_list[k])
           /\ \E i \in 1..(k - 1) : wait_list[i].prio > wait_list[k].prio

(* ---------------------------------------------------------------------- *)
(* C18                                                                     *)
(* ---------------------------------------------------------------------- *)

\* C18: under either policy an insert adds the new waiter at one position
\* and changes nothing else: the list after the call without the new
\* waiter is the list before the call, it is longer by exactly 1, and no
\* waiter occurs twice.
C18_InsertFrame ==
    [][(last'.op = "insert" /\ wait_list' # wait_list) =>
        /\ Len(wait_list') = Len(wait_list) + 1
        /\ \E k \in 1..Len(wait_list') :
              /\ wait_list'[k].arr = Len(wait_list) + 1
              /\ Without(wait_list', k) = wait_list
        /\ \A i, j \in 1..Len(wait_list') :
              i # j => wait_list'[i].arr # wait_list'[j].arr
      ]_vars

\* a waiter has been inserted at the front of a list of MaxLen - 1 waiters
C18_Witness ==
    /\ JustInserted
    /\ Len(wait_list) = MaxLen
    /\ Newest(wait_list) = 1
    /\ last.ret

(* ---------------------------------------------------------------------- *)
(* C19                                                                     *)
(* ---------------------------------------------------------------------- *)

\* C19: under the priority-aware policy, as long as no elevated waiter has
\* been inserted with the budget at cap since the last reset, no queued
\* elevated waiter has a strictly less urgent waiter ahead of it.
C19_ElevatedAheadBelowCap ==
    (policy = "prio" /\ ~hist.capins) =>
        \A i, j \in 1..Len(wait_list) :
            (i < j /\ Elevated(wait_list[j]))
                => wait_list[i].prio <= wait_list[j].prio

\* the budget is used up, no elevated waiter has come since, and the
\* elevated waiters of a full list are ahead of a less urgent one
C19_Witness ==
    /\ policy = "prio"
    /\ ~hist.capins
    /\ m_count = cap
    /\ Len(wait_list) = MaxLen
    /\ Elevated(wait_list[1])
    /\ Elevated(wait_list[2])
    /\ ~Elevated(wait_list[3])

====
